---- MODULE Spec2Model ----
(***************************************************************************)
(* Model of the query-time resilience layer of the RAG pipeline:           *)
(*   - APIKeyManager (src/config.py): the shared credential pool           *)
(*   - RAGChain.generate_response (src/rag_chain.py): the Answer Generator *)
(*   - ImageProcessor.generate_contextual_description                       *)
(*     (src/image_processor.py): the Image Captioner                       *)
(* Indices are 0-based as in the source; api_keys is a TLA+ sequence, so   *)
(* api_keys[i + 1] is the source's api_keys[i].                            *)
(***************************************************************************)
EXTENDS Integers, Sequences, FiniteSets, TLC

VARIABLES
    api_keys,           \* APIKeyManager.api_keys
    current_key_index,  \* APIKeyManager.current_key_index
    failed_keys,        \* APIKeyManager.failed_keys
    configured,         \* number of environment slots holding a non-blank credential
    ctorError,          \* TRUE iff APIKeyManager.__init__ raised ValueError
    poolError,          \* exception raised by a pool operation, "none" if none
    lastOp,             \* last operation that completed
    ret,                \* value returned by the last direct pool operation
    marksSinceGet,      \* consecutive direct mark_key_failed() calls just made
    llm_key,            \* index of the credential self.llm was built with
    pc,                 \* "idle", "gen" (in generate_response), "cap" (in the captioner)
    attempt,            \* loop variable of the retry loop
    max_retries,        \* bound of the retry loop of the running call
    script,             \* behaviour of the remote model during the running call
    inputs,             \* arguments of the running call
    calls,              \* remote calls of the running call: <<credential index, what the model did>>
    marked,             \* indices marked failed by the running call
    startFailed,        \* failed_keys when the running call, or the last get_current_key(), started
    result,             \* value returned by the last call
    prompt,             \* prompt last sent to the remote model by the running call
    tpc,                \* per-thread position (concurrent specification)
    marksDone,          \* completed mark_key_failed() calls (concurrent specification)
    getsStarted,        \* TRUE once some thread entered get_current_key()
    query_results,      \* argument of _format_context (formatting specification)
    context_out,        \* value returned by _format_context (formatting specification)
    LANGGRAPH_AVAILABLE,\* graph_workflow.LANGGRAPH_AVAILABLE
    use_langgraph,      \* RAGWorkflow.use_langgraph
    workflow,           \* TRUE iff RAGWorkflow.workflow holds a compiled graph
    image_processor,    \* TRUE iff RAGWorkflow.image_processor is attached
    rpc,                \* position of the running RAGWorkflow.run(), "idle" if none
    request,            \* arguments of the running run() and behaviour of its collaborators
    state,              \* the graph state of the running run()
    image_description,  \* local image_description of _run_simple_workflow
    genCalls,           \* calls of rag_chain.generate_response made by the running run()
    run_result,         \* value returned by the last run()
    graph_used,         \* TRUE iff the running run() called workflow.invoke
    raised_in_run,      \* TRUE iff workflow.invoke raised in the running run()
    stages,             \* stages entered, collaborators called and retrievals made by the running run()
    twin,               \* the same run() for a question that differs in its visual keyword
    graphRaised,        \* TRUE iff workflow.invoke raised in some run()
    enabledAfterRaise,  \* TRUE iff try_enable_langgraph() returned True since the last raise
    flowOp,             \* last public operation of RAGWorkflow that completed
    flowRet,            \* value returned by the last utility method
    text_collection,    \* ids of the records of VectorStore.text_collection
    image_collection,   \* ids of the records of VectorStore.image_collection
    storeOp,            \* last VectorStore operation that completed
    storeArgs,          \* arguments of that operation and behaviour of its collaborators
    query_out,          \* dict returned by the last query
    colQueries,         \* collection.query calls made by the last query
    stats,              \* dict returned by the last get_statistics()
    text_embedding,     \* text_embedding of query_with_uploaded_image
    image_embedding,    \* image_embedding of query_with_uploaded_image
    combined_embedding  \* combined_embedding of query_with_uploaded_image

poolVars == <<api_keys, current_key_index, failed_keys, configured, ctorError, poolError>>
opVars == <<lastOp, ret, marksSinceGet>>
callVars == <<llm_key, pc, attempt, max_retries, script, inputs, calls, marked,
              startFailed, result, prompt>>
threadVars == <<tpc, marksDone, getsStarted>>
fmtVars == <<query_results, context_out>>
modeVars == <<LANGGRAPH_AVAILABLE, use_langgraph, workflow, image_processor>>
runVars == <<rpc, request, state, image_description, genCalls, run_result,
             graph_used, raised_in_run, stages, twin>>
flowVars == <<modeVars, runVars, graphRaised, enabledAfterRaise, flowOp, flowRet>>
colVars == <<text_collection, image_collection>>
recVars == <<storeOp, storeArgs, query_out, colQueries, stats>>
storeVars == <<colVars, recVars>>
embedVars == <<text_embedding, image_embedding, combined_embedding>>
auxVars == <<threadVars, fmtVars, flowVars, storeVars, embedVars>>
vars == <<poolVars, opVars, callVars, auxVars>>

----------------------------------------------------------------------------
(* Bounds *)

\* environment slots GEMINI_API_KEY_1..MaxSlots that are examined
MaxSlots == 4

----------------------------------------------------------------------------
(* APIKeyManager: construction *)

None == <<"None">>

\* values an environment slot may hold: unset, empty, blank, a key, a padded key
EnvValues == { None, <<>>, <<" ">>, <<"k">>, <<" ", "k", " ">> }

RECURSIVE LStrip(_)
LStrip(s) == IF s # <<>> /\ Head(s) = " " THEN LStrip(Tail(s)) ELSE s

RECURSIVE RStrip(_)
RStrip(s) == IF s # <<>> /\ s[Len(s)] = " " THEN RStrip(SubSeq(s, 1, Len(s) - 1)) ELSE s

\* str.strip()
Strip(s) == RStrip(LStrip(s))

\* the test `key and key.strip()` without the strip: a blank value is kept
KeepKeyNoStrip(key) == key # None /\ key # <<>>

\* `if key and key.strip()`
KeepKey(key) == key # None /\ key # <<>> /\ Strip(key) # <<>>

RECURSIVE LoadFrom(_, _)
LoadFrom(env, i) ==
    IF i > Len(env) THEN <<>>
    ELSE IF KeepKey(env[i]) THEN <<Strip(env[i])>> \o LoadFrom(env, i + 1)
         ELSE LoadFrom(env, i + 1)

\* APIKeyManager._load_api_keys
LoadApiKeys(env) == LoadFrom(env, 1)

\* a slot value that carries a credential: some character of it is not a space
NonBlank(v) == v # None /\ \E j \in 1..Len(v) : v[j] # " "

NonBlankCount(env) == Cardinality({ i \in 1..Len(env) : NonBlank(env[i]) })

Environments == [1..MaxSlots -> EnvValues]

N == Len(api_keys)

AllIndices == 0..(N - 1)

----------------------------------------------------------------------------
(* APIKeyManager: operations, as functions of the pool fields *)

\* get_current_key without the reset
FailedAfterGetNoReset(failed, keys) == failed

\* get_current_key, line 30
AllFailed(failed, keys) == Cardinality(failed) >= Len(keys)

\* get_current_key, lines 30-33: failed_keys after the call
FailedAfterGet(failed, keys) ==
    IF AllFailed(failed, keys) THEN {} ELSE failed

\* get_current_key, line 35: the exception of api_keys[current_key_index], if any
GetError(idx, keys) ==
    IF idx >= 0 /\ idx < Len(keys) THEN "none" ELSE "IndexError"

\* mark_key_failed that marks nothing
FailedAfterMarkNothing(failed, idx) == failed

\* mark_key_failed, line 39
FailedAfterMark(failed, idx) == failed \cup {idx}

\* mark_key_failed that does not advance the pointer
NextIndexStay(idx, keys) == idx

\* mark_key_failed that advances without wrapping
NextIndexNoWrap(idx, keys) == idx + 1

\* mark_key_failed, line 40 (only evaluated when keys is non-empty)
NextIndex(idx, keys) == (idx + 1) % Len(keys)

\* mark_key_failed, line 40: the exception of `% len(self.api_keys)`, if any
MarkError(keys) == IF Len(keys) = 0 THEN "ZeroDivisionError" ELSE "none"

\* get_available_keys_count that counts the failed keys
AvailableCountFailed(failed, keys) == Cardinality(failed)

\* get_available_keys_count, line 45
AvailableCount(failed, keys) == Len(keys) - Cardinality(failed)

Available == AvailableCount(failed_keys, api_keys)

FirstError(old, new) == IF old # "none" THEN old ELSE new

Min(a, b) == IF a < b THEN a ELSE b

----------------------------------------------------------------------------
(* Query results and RAGChain._format_context *)

\* most hits one side of a query result holds
MaxHits == 2

Docs == {"d1", "d2"}
Sources == {"a.pdf", "b.docx"}
Pages == {"1", "7"}
Metas == [source : Sources, page : Pages]

SeqsUpTo(S, n) == UNION { [1..k -> S] : k \in 0..n }

\* one side of a query result: {} (present = FALSE: the channel failed), or
\* the index's answer {'documents': [docs], 'metadatas': [metas]}, whose hit
\* lists are empty when nothing matched
AbsentSide == [present |-> FALSE, docs |-> <<>>, metas |-> <<>>]

Sides == {AbsentSide} \cup
         { [present |-> TRUE, docs |-> d, metas |-> m] :
               d \in SeqsUpTo(Docs, MaxHits), m \in SeqsUpTo(Metas, MaxHits) }

\* the sides the index produces: one metadata per document
IndexSides == { sd \in Sides : Len(sd.docs) = Len(sd.metas) }

TextHeader == <<"=== TEXT CONTENT ===">>
VisualHeader == <<"=== VISUAL CONTENT (Charts, Diagrams, Tables) ===">>
Sentinel == << <<"No specific document context available.">> >>

\* `query_results.get(side, {}).get('documents')`: [[...]] is truthy, also as [[]]
HasDocuments(sd) == sd.present

ZipLen(sd) == Min(Len(sd.docs), Len(sd.metas))

\* line 90
TextEntry(doc, meta) == <<"[Source:", meta.source, doc>>

\* an entry that leaves out the document text
VisualEntryNoDoc(doc, meta) == <<"[Visual from", meta.source, "Page", meta.page>>

\* line 101
VisualEntry(doc, meta) == <<"[Visual from", meta.source, "Page", meta.page, doc>>

\* lines 82-90
TextParts(sd) ==
    IF HasDocuments(sd)
    THEN <<TextHeader>> \o [i \in 1..ZipLen(sd) |-> TextEntry(sd.docs[i], sd.metas[i])]
    ELSE <<>>

\* lines 92-101
VisualParts(sd) ==
    IF HasDocuments(sd)
    THEN <<VisualHeader>> \o [i \in 1..ZipLen(sd) |-> VisualEntry(sd.docs[i], sd.metas[i])]
    ELSE <<>>

\* RAGChain._format_context: the parts that "\n".join concatenates, or the sentinel
FormatContext(qr) ==
    IF TextParts(qr.text) \o VisualParts(qr.image) # <<>>
    THEN TextParts(qr.text) \o VisualParts(qr.image)
    ELSE Sentinel

\* a test that only looks for an empty context
ContextMissingBlankOnly(ctx) == ctx = <<>>

\* a test that never finds the context missing
ContextMissingNever(ctx) == FALSE

\* line 148: `not context.strip() or context == "No specific document context available."`
ContextMissing(ctx) == ctx = <<>> \/ ctx = Sentinel

Hit1 == [present |-> TRUE, docs |-> <<"d1">>,
         metas |-> <<[source |-> "a.pdf", page |-> "1"]>>]
Hit2 == [present |-> TRUE, docs |-> <<"d2">>,
         metas |-> <<[source |-> "b.docx", page |-> "7"]>>]
NoHits == [present |-> TRUE, docs |-> <<>>, metas |-> <<>>]

\* the query results generate_response is run with: both channels failed,
\* nothing matched, text hits only, hits on both sides
GenQueryResults ==
    { [text |-> AbsentSide, image |-> AbsentSide],
      [text |-> NoHits, image |-> NoHits],
      [text |-> Hit1, image |-> AbsentSide],
      [text |-> Hit1, image |-> Hit2] }

NoQuery == [text |-> AbsentSide, image |-> AbsentSide]

NoPrompt == [template |-> "none", context |-> <<>>]

\* _format_context has not returned yet
NotFormatted == << <<"-">> >>

IdleFormat ==
    /\ query_results = NoQuery
    /\ context_out = NotFormatted

\* no combined query has computed its embeddings
IdleEmbed ==
    /\ text_embedding = <<>>
    /\ image_embedding = <<>>
    /\ combined_embedding = <<>>

NoArgs == [op |-> "none"]
NoStats == [text_chunks |-> 0, image_descriptions |-> 0, total |-> 0]

\* no record of an earlier VectorStore operation is held
NoStoreRecord ==
    /\ storeOp = "none"
    /\ storeArgs = NoArgs
    /\ query_out = NoQuery
    /\ colQueries = <<>>
    /\ stats = NoStats

\* VectorStore.__init__ on an empty database directory
IdleStore ==
    /\ text_collection = {}
    /\ image_collection = {}
    /\ NoStoreRecord

\* run() has not returned yet
NotReturned == <<"-">>

\* initial_state of run(), lines 233-241
InitialState(img) ==
    [image_description |-> <<>>, response |-> <<>>, has_image |-> img, error |-> None]

NoRequest == [img |-> FALSE, visual |-> FALSE, cap |-> "caption", gen |-> "answer"]

\* the local variables of a run() that was started: graph says whether the
\* graph strategy was chosen
StartedRun(img, graph) ==
    [rpc |-> IF graph THEN "analyze_query" ELSE "simple_image",
     state |-> InitialState(img),
     image_description |-> None,
     genCalls |-> <<>>,
     run_result |-> NotReturned,
     stages |-> <<>>]

NoRun == [StartedRun(FALSE, FALSE) EXCEPT !.rpc = "idle"]

\* no run() was started
IdleRun ==
    /\ rpc = "idle"
    /\ request = NoRequest
    /\ state = InitialState(FALSE)
    /\ image_description = None
    /\ genCalls = <<>>
    /\ run_result = NotReturned
    /\ graph_used = FALSE
    /\ raised_in_run = FALSE
    /\ stages = <<>>
    /\ twin = NoRun

\* no RAGWorkflow operation was made yet
IdleHistory ==
    /\ graphRaised = FALSE
    /\ enabledAfterRaise = FALSE
    /\ flowOp = "none"
    /\ flowRet = None

\* a RAGWorkflow that took the linear strategy at construction and is unused
IdleFlow ==
    /\ LANGGRAPH_AVAILABLE = FALSE
    /\ use_langgraph = FALSE
    /\ workflow = FALSE
    /\ image_processor = FALSE
    /\ IdleRun
    /\ IdleHistory

----------------------------------------------------------------------------
(* Initial state: Config.api_key_manager = APIKeyManager() has run, and     *)
(* RAGChain.__init__ has built self.llm with the current credential.        *)

IdleCall ==
    /\ pc = "idle"
    /\ attempt = 0
    /\ max_retries = 0
    /\ script = [quota |-> 0, thenOk |-> TRUE]
    /\ inputs = [img |-> FALSE, desc |-> FALSE, qr |-> NoQuery,
                 userQuery |-> FALSE, saveFails |-> FALSE]
    /\ calls = <<>>
    /\ marked = <<>>
    /\ startFailed = {}
    /\ result = None
    /\ prompt = NoPrompt

\* two concurrent requests (Streamlit runs each session's script in its own thread)
Threads == {1, 2}

IdleThreads ==
    /\ tpc = [t \in Threads |-> "idle"]
    /\ marksDone = 0
    /\ getsStarted = FALSE

\* APIKeyManager.__init__ in environment env
PoolLoadedFrom(env) ==
    /\ api_keys = LoadApiKeys(env)
    /\ configured = NonBlankCount(env)
    /\ current_key_index = 0
    /\ failed_keys = {}
    /\ ctorError = (LoadApiKeys(env) = <<>>)
    /\ poolError = "none"

InitPool == \E env \in Environments : PoolLoadedFrom(env)

\* no pool operation and no model call was made yet
IdleOps ==
    /\ lastOp = "none"
    /\ ret = -1
    /\ marksSinceGet = 0
    /\ llm_key = 0
    /\ IdleCall
    /\ IdleThreads

Init ==
    /\ InitPool
    /\ IdleOps
    /\ IdleFormat
    /\ IdleFlow
    /\ IdleStore
    /\ IdleEmbed

\* the environment in which every examined slot holds a credential
FullEnvironment == [i \in 1..MaxSlots |-> <<"k">>]

Constructed == ~ctorError

\* No record of an earlier generate_response / captioner call is held. The
\* record is what the caller reads of a finished call; the UI drops it when
\* its next rerun reads the pool (app.py:297, get_available_keys_count), which
\* leaves the pool as the call left it.
NoCallRecord == lastOp \notin {"gen", "cap", "vinit"}

\* the record kept of the last generate_response / captioner call is dropped,
\* but for startFailed
ForgetCallFields ==
    /\ pc' = "idle"
    /\ attempt' = 0
    /\ max_retries' = 0
    /\ script' = [quota |-> 0, thenOk |-> TRUE]
    /\ inputs' = [img |-> FALSE, desc |-> FALSE, qr |-> NoQuery,
                  userQuery |-> FALSE, saveFails |-> FALSE]
    /\ calls' = <<>>
    /\ marked' = <<>>
    /\ result' = None
    /\ prompt' = NoPrompt

\* the record kept of the last generate_response / captioner call is dropped
ForgetCall ==
    /\ ForgetCallFields
    /\ startFailed' = {}

----------------------------------------------------------------------------
(* Direct calls of the pool's operations (sequential use) *)

\* APIKeyManager.get_current_key
get_current_key ==
    /\ Constructed /\ pc = "idle"
    /\ failed_keys' = FailedAfterGet(failed_keys, api_keys)
    /\ poolError' = FirstError(poolError, GetError(current_key_index, api_keys))
    /\ ret' = current_key_index
    /\ lastOp' = "get"
    /\ marksSinceGet' = 0
    /\ UNCHANGED <<api_keys, current_key_index, configured, ctorError>>
    /\ ForgetCallFields
    /\ startFailed' = failed_keys
    /\ UNCHANGED <<llm_key, auxVars>>

\* APIKeyManager.mark_key_failed
mark_key_failed ==
    /\ Constructed /\ pc = "idle"
    /\ failed_keys' = FailedAfterMark(failed_keys, current_key_index)
    /\ current_key_index' = IF MarkError(api_keys) = "none"
                            THEN NextIndex(current_key_index, api_keys)
                            ELSE current_key_index
    /\ poolError' = FirstError(poolError, MarkError(api_keys))
    /\ ret' = -1
    /\ lastOp' = "mark"
    /\ marksSinceGet' = Min(marksSinceGet + 1, N)
    /\ UNCHANGED <<api_keys, configured, ctorError>>
    /\ ForgetCall
    /\ UNCHANGED <<llm_key, auxVars>>

\* APIKeyManager.get_available_keys_count
get_available_keys_count ==
    /\ Constructed /\ pc = "idle"
    /\ ret' = AvailableCount(failed_keys, api_keys)
    /\ lastOp' = "count"
    /\ ForgetCall
    /\ UNCHANGED <<poolVars, marksSinceGet, llm_key, auxVars>>

----------------------------------------------------------------------------
(* The remote model and the classification of its errors *)

\* exception messages, as sequences of words
QuotaErrors == { <<"429", "Resource", "exhausted">>,
                 <<"Quota", "exceeded">>,
                 <<"Rate", "Limit", "reached">> }

OtherErrors == { <<"Invalid", "argument">>, <<"rate", "of", "limit">> }

SaveError == <<"cannot", "write", "image">>

\* str.lower(), word by word
Lower(w) ==
    CASE w = "Quota" -> "quota"
      [] w = "Rate" -> "rate"
      [] w = "Limit" -> "limit"
      [] w = "Resource" -> "resource"
      [] w = "Invalid" -> "invalid"
      [] OTHER -> w

LowerAll(msg) == [i \in 1..Len(msg) |-> Lower(msg[i])]

\* `sub in msg`, at word granularity
Contains(msg, sub) ==
    \E i \in 1..(Len(msg) - Len(sub) + 1) : SubSeq(msg, i, i + Len(sub) - 1) = sub

\* a classification that treats every error as a quota error
IsQuotaErrorAlways(msg) == TRUE

\* a classification that treats no error as a quota error
IsQuotaErrorNever(msg) == FALSE

\* `'quota' in error_msg or 'rate limit' in error_msg or '429' in error_msg`
IsQuotaError(msg) ==
    \/ Contains(LowerAll(msg), <<"quota">>)
    \/ Contains(LowerAll(msg), <<"rate", "limit">>)
    \/ Contains(LowerAll(msg), <<"429">>)

\* The remote model of one call follows a script: it raises a quota error on
\* its first script.quota calls, then answers (thenOk) or raises another error.
Scripts == [quota : 0..MaxSlots, thenOk : BOOLEAN]

\* the outcomes the remote model may produce on its k-th call of the running call
Outcomes(scr, k) ==
    IF k <= scr.quota THEN QuotaErrors
    ELSE IF scr.thenOk THEN { <<"ok">> }
    ELSE OtherErrors

\* what the remote model did on its k-th call: answered, signalled quota
\* exhaustion / rate limiting, or failed otherwise
Kind(scr, k) ==
    IF k <= scr.quota THEN "quota" ELSE IF scr.thenOk THEN "ok" ELSE "other"

ThisKind == Kind(script, Len(calls) + 1)

----------------------------------------------------------------------------
(* RAGChain.generate_response *)

\* default of the parameter max_retries
DefaultMaxRetries == 3

Response == <<"RESPONSE">>
Insufficient == <<"I don't have enough information in my knowledge base">>
Exhausted == <<"All API keys exhausted">>
ErrorString(msg) == <<"Error generating response:">> \o msg

\* the retry bound generate_response runs with: callers never pass max_retries
GenMaxRetries(keys) == DefaultMaxRetries

\* `if uploaded_image and image_description`
Multimodal(inp) == inp.img /\ inp.desc

GenInputs == { inp \in [img : BOOLEAN, desc : BOOLEAN, qr : GenQueryResults,
                        userQuery : BOOLEAN, saveFails : BOOLEAN] :
                   ~inp.userQuery /\ ~inp.saveFails }

\* line 132
Context(inp) == FormatContext(inp.qr)

\* a selection that looks at the image description only
TemplateDescOnly(inp) == IF inp.desc THEN "multimodal" ELSE "text"

\* lines 135-159: the prompt template the chain is built with
Template(inp) == IF Multimodal(inp) THEN "multimodal" ELSE "text"

\* the prompt chain.invoke sends
BuildPrompt(inp) == [template |-> Template(inp), context |-> Context(inp)]

\* the exception of a failed _initialize_llm(), which leaves generate_response
Raised == <<"EXCEPTION">>

GenStart ==
    /\ Constructed /\ pc = "idle" /\ NoCallRecord
    /\ \E inp \in GenInputs, scr \in Scripts :
        /\ inputs' = inp
        /\ script' = scr
    /\ pc' = "gen"
    /\ attempt' = 0
    /\ max_retries' = GenMaxRetries(api_keys)
    /\ calls' = <<>>
    /\ marked' = <<>>
    /\ startFailed' = failed_keys
    /\ result' = None
    /\ prompt' = NoPrompt
    /\ lastOp' = "gen"
    /\ ret' = -1
    /\ marksSinceGet' = 0
    /\ UNCHANGED <<poolVars, llm_key, auxVars>>

\* the short circuit of lines 148-149: no remote call
GenShortCircuit ==
    /\ ~Multimodal(inputs) /\ ContextMissing(Context(inputs))
    /\ result' = Insufficient
    /\ pc' = "idle"
    /\ UNCHANGED <<poolVars, marksSinceGet, llm_key, attempt, calls, marked, prompt>>

\* chain.invoke(question) returned
GenSuccess(out) ==
    /\ out = <<"ok">>
    /\ calls' = Append(calls, <<llm_key, ThisKind>>)
    /\ result' = Response
    /\ pc' = "idle"
    /\ UNCHANGED <<poolVars, marksSinceGet, llm_key, attempt, marked>>

\* lines 168-172 and 177-178: mark_key_failed(), _initialize_llm(), last attempt
GenQuota(out) ==
    /\ out # <<"ok">> /\ IsQuotaError(out)
    /\ calls' = Append(calls, <<llm_key, ThisKind>>)
    /\ marked' = Append(marked, current_key_index)
    /\ current_key_index' = IF MarkError(api_keys) = "none"
                            THEN NextIndex(current_key_index, api_keys)
                            ELSE current_key_index
    /\ failed_keys' = FailedAfterGet(FailedAfterMark(failed_keys, current_key_index),
                                     api_keys)
    /\ poolError' = FirstError(poolError,
                        FirstError(MarkError(api_keys),
                                   GetError(current_key_index', api_keys)))
    /\ marksSinceGet' = 0
    /\ \/ /\ llm_key' = current_key_index'
          /\ IF attempt = max_retries - 1
             THEN /\ result' = Exhausted
                  /\ pc' = "idle"
                  /\ attempt' = attempt
             ELSE /\ result' = result
                  /\ pc' = "gen"
                  /\ attempt' = attempt + 1
       \/ \* lines 74-76: building the client raised, and the handler has no handler
          /\ llm_key' = llm_key
          /\ result' = Raised
          /\ pc' = "idle"
          /\ attempt' = attempt
    /\ UNCHANGED <<api_keys, configured, ctorError>>

\* lines 173-175
GenOtherError(out) ==
    /\ out # <<"ok">> /\ ~IsQuotaError(out)
    /\ calls' = Append(calls, <<llm_key, ThisKind>>)
    /\ result' = ErrorString(out)
    /\ pc' = "idle"
    /\ UNCHANGED <<poolVars, marksSinceGet, llm_key, attempt, marked>>

\* one iteration of `for attempt in range(max_retries)`
GenAttempt ==
    /\ pc = "gen" /\ attempt < max_retries
    /\ \/ GenShortCircuit
       \/ /\ ~(~Multimodal(inputs) /\ ContextMissing(Context(inputs)))
          /\ prompt' = BuildPrompt(inputs)
          /\ \E out \in Outcomes(script, Len(calls) + 1) :
                \/ GenSuccess(out)
                \/ GenQuota(out)
                \/ GenOtherError(out)
    /\ UNCHANGED <<lastOp, ret, max_retries, script, inputs, startFailed, auxVars>>

----------------------------------------------------------------------------
(* ImageProcessor._initialize_vision_model. genai.configure and the          *)
(* construction of the model make no remote call; script gives the kind of  *)
(* the exception each attempt ends with, if any.                            *)

VisionInitAttempts == 3

VisionInitFailed == <<"Failed to initialize vision model after 3 attempts">>

\* the kind of exception the running initialisation handles in this attempt
InitAttemptKind == Kind(script, attempt + 1)

VInitStart ==
    /\ Constructed /\ pc = "idle" /\ NoCallRecord
    /\ \E scr \in Scripts : script' = scr
    /\ inputs' = [img |-> FALSE, desc |-> FALSE, qr |-> NoQuery,
                  userQuery |-> FALSE, saveFails |-> FALSE]
    /\ pc' = "vinit"
    /\ attempt' = 0
    /\ max_retries' = VisionInitAttempts
    /\ calls' = <<>>
    /\ marked' = <<>>
    /\ startFailed' = failed_keys
    /\ result' = None
    /\ prompt' = NoPrompt
    /\ lastOp' = "vinit"
    /\ ret' = -1
    /\ marksSinceGet' = 0
    /\ UNCHANGED <<poolVars, llm_key, auxVars>>

\* lines 23-27: the model was built
VInitSuccess ==
    /\ InitAttemptKind = "ok"
    /\ failed_keys' = FailedAfterGet(failed_keys, api_keys)
    /\ poolError' = FirstError(poolError, GetError(current_key_index, api_keys))
    /\ result' = None
    /\ pc' = "idle"
    /\ UNCHANGED <<api_keys, current_key_index, configured, ctorError, attempt, marked>>

\* lines 28-32: any exception marks the current credential failed
VInitError ==
    /\ InitAttemptKind # "ok"
    /\ marked' = Append(marked, current_key_index)
    /\ failed_keys' = FailedAfterMark(FailedAfterGet(failed_keys, api_keys),
                                      current_key_index)
    /\ current_key_index' = IF MarkError(api_keys) = "none"
                            THEN NextIndex(current_key_index, api_keys)
                            ELSE current_key_index
    /\ poolError' = FirstError(poolError,
                        FirstError(GetError(current_key_index, api_keys),
                                   MarkError(api_keys)))
    /\ attempt' = attempt + 1
    /\ IF attempt = VisionInitAttempts - 1
       THEN /\ result' = VisionInitFailed
            /\ pc' = "idle"
       ELSE /\ result' = result
            /\ pc' = "vinit"
    /\ UNCHANGED <<api_keys, configured, ctorError>>

\* one iteration of `for attempt in range(3)`
VInitAttempt ==
    /\ pc = "vinit" /\ attempt < max_retries
    /\ \/ VInitSuccess
       \/ VInitError
    /\ marksSinceGet' = 0
    /\ UNCHANGED <<lastOp, ret, max_retries, script, inputs, calls, startFailed,
                   llm_key, prompt, auxVars>>

----------------------------------------------------------------------------
(* ImageProcessor.generate_contextual_description *)

Description == "DESCRIPTION"

\* lines 174-177
Tagged(userQuery) ==
    IF userQuery THEN <<"[User Uploaded Image]", Description>>
    ELSE <<"[Page n]", Description>>

\* a retry bound that is the Answer Generator's default
CapMaxRetriesDefault(keys) == DefaultMaxRetries

\* line 121
CapMaxRetries(keys) == Len(keys)

CapInputs == { inp \in [img : BOOLEAN, desc : BOOLEAN, qr : {NoQuery},
                        userQuery : BOOLEAN, saveFails : BOOLEAN] :
                   inp.img /\ ~inp.desc }

CapStart ==
    /\ Constructed /\ pc = "idle" /\ NoCallRecord
    /\ \E inp \in CapInputs, scr \in Scripts :
        /\ inputs' = inp
        /\ script' = scr
    /\ pc' = "cap"
    /\ attempt' = 0
    /\ max_retries' = CapMaxRetries(api_keys)
    /\ calls' = <<>>
    /\ marked' = <<>>
    /\ startFailed' = failed_keys
    /\ result' = None
    /\ prompt' = NoPrompt
    /\ lastOp' = "cap"
    /\ ret' = -1
    /\ marksSinceGet' = 0
    /\ UNCHANGED <<poolVars, llm_key, auxVars>>

\* image.save raised: the handler of lines 181-190 sees a non-quota error
CapSaveFails ==
    /\ inputs.saveFails
    /\ ~IsQuotaError(SaveError)
    /\ result' = None
    /\ pc' = "idle"
    /\ UNCHANGED <<poolVars, marksSinceGet, attempt, calls, marked>>

\* lines 167-179
CapSuccess(out) ==
    /\ out = <<"ok">>
    /\ failed_keys' = FailedAfterGet(failed_keys, api_keys)
    /\ poolError' = FirstError(poolError, GetError(current_key_index, api_keys))
    /\ calls' = Append(calls, <<current_key_index, ThisKind>>)
    /\ result' = Tagged(inputs.userQuery)
    /\ pc' = "idle"
    /\ marksSinceGet' = 0
    /\ UNCHANGED <<api_keys, current_key_index, configured, ctorError, attempt, marked>>

\* lines 167-171, 184-187, and the end of the loop at lines 192-193
CapQuota(out) ==
    /\ out # <<"ok">> /\ IsQuotaError(out)
    /\ calls' = Append(calls, <<current_key_index, ThisKind>>)
    /\ marked' = Append(marked, current_key_index)
    /\ failed_keys' = FailedAfterMark(FailedAfterGet(failed_keys, api_keys),
                                      current_key_index)
    /\ current_key_index' = IF MarkError(api_keys) = "none"
                            THEN NextIndex(current_key_index, api_keys)
                            ELSE current_key_index
    /\ poolError' = FirstError(poolError,
                        FirstError(GetError(current_key_index, api_keys),
                                   MarkError(api_keys)))
    /\ marksSinceGet' = 0
    /\ attempt' = attempt + 1
    /\ IF attempt + 1 >= max_retries
       THEN /\ result' = None
            /\ pc' = "idle"
       ELSE /\ result' = result
            /\ pc' = "cap"
    /\ UNCHANGED <<api_keys, configured, ctorError>>

\* lines 167-171, 188-190
CapOtherError(out) ==
    /\ out # <<"ok">> /\ ~IsQuotaError(out)
    /\ failed_keys' = FailedAfterGet(failed_keys, api_keys)
    /\ poolError' = FirstError(poolError, GetError(current_key_index, api_keys))
    /\ calls' = Append(calls, <<current_key_index, ThisKind>>)
    /\ result' = None
    /\ pc' = "idle"
    /\ marksSinceGet' = 0
    /\ UNCHANGED <<api_keys, current_key_index, configured, ctorError, attempt, marked>>

\* one iteration of `for attempt in range(max_retries)`
CapAttempt ==
    /\ pc = "cap" /\ attempt < max_retries
    /\ \/ CapSaveFails
       \/ /\ ~inputs.saveFails
          /\ \E out \in Outcomes(script, Len(calls) + 1) :
                \/ CapSuccess(out)
                \/ CapQuota(out)
                \/ CapOtherError(out)
    /\ UNCHANGED <<lastOp, ret, max_retries, script, inputs, startFailed, llm_key,
                   prompt, auxVars>>

Next ==
    \/ get_current_key
    \/ mark_key_failed
    \/ get_available_keys_count
    \/ GenStart
    \/ GenAttempt
    \/ CapStart
    \/ CapAttempt
    \/ VInitStart
    \/ VInitAttempt

Spec == Init /\ [][Next]_vars

----------------------------------------------------------------------------
(* Claims about the credential pool *)

\* C1: after N consecutive mark_key_failed() calls with no get_current_key()
\* in between, no credential is available and get_available_keys_count()
\* returns 0; the next get_current_key() clears every failure mark, so that
\* N credentials are available again.
C1_ExhaustThenReset ==
    [][ /\ (N >= 1 /\ marksSinceGet' >= N) =>
              /\ N - Cardinality(failed_keys') = 0
              /\ (lastOp' = "count" => ret' = 0)
        /\ (N >= 1 /\ marksSinceGet >= N /\ lastOp' = "get") =>
              /\ failed_keys' = {}
              /\ N - Cardinality(failed_keys') = N
        /\ (lastOp' = "count" => ret' = N - Cardinality(failed_keys')) ]_vars

\* N >= 2 consecutive marks were made and get_available_keys_count() returned 0
C1_Witness ==
    N >= 2 /\ marksSinceGet >= N /\ lastOp = "count" /\ ret = 0

\* C2: the credential returned by get_current_key() is not marked failed when
\* it is returned, and the active index is marked failed only if all N
\* indices are.
C2_CurrentNotFailed ==
    Constructed =>
        /\ (lastOp = "get" => ret \notin failed_keys)
        /\ (current_key_index \in failed_keys => failed_keys = 0..(N - 1))

\* get_current_key() returned a credential while another one was marked failed
C2_Witness ==
    lastOp = "get" /\ failed_keys # {} /\ ret = current_key_index /\ ret \notin failed_keys

\* C4: mark_key_failed() adds exactly the index that was active to the failed
\* set, sets the active index to (old index + 1) mod N, and changes nothing
\* else in the pool.
C4_MarkEffect ==
    [][ lastOp' = "mark" =>
            /\ failed_keys' = failed_keys \cup {current_key_index}
            /\ current_key_index' = (current_key_index + 1) % N
            /\ api_keys' = api_keys
            /\ poolError' = poolError ]_vars

\* a mark_key_failed() call wrapped the pointer from N-1 back to 0
C4_Witness ==
    N >= 2 /\ lastOp = "mark" /\ current_key_index = 0 /\ (N - 1) \in failed_keys

\* C5: construction with zero non-blank credentials fails, so no pool with an
\* empty key list is in use; on a constructed pool no operation raises.
C5_ConstructionAndTotality ==
    /\ (configured = 0 => ctorError)
    /\ (ctorError => lastOp = "none" /\ pc = "idle")
    /\ (Constructed => Len(api_keys) >= 1 /\ poolError = "none")

\* construction was refused for a configuration without credentials
C5_Witness ==
    ctorError /\ configured = 0 /\ api_keys = <<>>


\* C38: in every state of a constructed pool, 0 <= current_key_index < N,
\* failed_keys is a subset of {0..N-1}, and get_available_keys_count() is
\* between 0 and N inclusive.
C38_PoolInRange ==
    /\ Constructed =>
          /\ current_key_index >= 0 /\ current_key_index < N
          /\ failed_keys \subseteq 0..(N - 1)
          /\ Available >= 0 /\ Available <= N
    /\ (lastOp = "count" => ret >= 0 /\ ret <= N)

\* after a wrap of the pointer every index but the active one is marked
\* failed, and get_available_keys_count() returned 1
C38_Witness ==
    /\ N >= 3 /\ current_key_index = 1 /\ failed_keys = (0..(N - 1)) \ {1}
    /\ lastOp = "count" /\ ret = 1

\* C39: get_current_key() never changes current_key_index; when a credential
\* is not marked failed it changes nothing in the pool, when all are marked
\* failed it only empties failed_keys; the credential it returns is the one at
\* the pointer, also right after a reset.
C39_GetFrame ==
    [][ lastOp' = "get" =>
            /\ current_key_index' = current_key_index
            /\ api_keys' = api_keys
            /\ poolError' = poolError
            /\ (Cardinality(failed_keys) < N => failed_keys' = failed_keys)
            /\ (Cardinality(failed_keys) >= N => failed_keys' = {})
            /\ ret' = current_key_index ]_vars

\* get_current_key() found every credential marked failed, emptied
\* failed_keys and returned the credential at the pointer
C39_Witness ==
    /\ lastOp = "get" /\ N >= 2 /\ startFailed = 0..(N - 1) /\ failed_keys = {}
    /\ ret = current_key_index

----------------------------------------------------------------------------
(* Claims about the retry loops *)

NumQuota == Cardinality({ i \in 1..Len(calls) : calls[i][2] = "quota" })

LastKind == IF calls = <<>> THEN "none" ELSE calls[Len(calls)][2]

GenReturned == lastOp = "gen" /\ pc = "idle"

CapReturned == lastOp = "cap" /\ pc = "idle"

\* the running generate_response call reaches the remote model
GenCallsRemote == Multimodal(inputs) \/ ~ContextMissing(Context(inputs))

\* C6: from a pool with no failures recorded, if the remote model raises a
\* quota error on exactly the first M < N calls and then succeeds,
\* generate_response() returns the model's answer and the pool shows exactly
\* M credentials marked failed (stated for the calls in which every rebuild
\* of the model client succeeded).
C6_GenRetrySucceeds ==
    (GenReturned /\ startFailed = {} /\ GenCallsRemote /\ result # Raised
        /\ script.thenOk /\ script.quota < N) =>
            /\ result = <<"RESPONSE">>
            /\ Cardinality(failed_keys) = script.quota

\* C7: from a pool with no failures recorded, if the remote vision model
\* raises a quota error on exactly the first M < N calls and then succeeds,
\* generate_contextual_description() returns the tagged description and the
\* pool shows exactly M credentials marked failed.
C7_CapRetrySucceeds ==
    (CapReturned /\ startFailed = {} /\ ~inputs.saveFails
        /\ script.thenOk /\ script.quota < N) =>
            /\ result = <<(IF inputs.userQuery THEN "[User Uploaded Image]" ELSE "[Page n]"),
                          "DESCRIPTION">>
            /\ Cardinality(failed_keys) = script.quota
            /\ NumQuota = script.quota

\* the captioner succeeded on its third call after two quota errors
C7_Witness ==
    /\ CapReturned /\ startFailed = {} /\ script.thenOk /\ script.quota = 2 /\ N >= 3
    /\ Len(calls) = 3 /\ Len(result) = 2

\* C8: one caption call makes at most N remote calls; each quota error marks
\* the credential of that call failed and the next attempt uses the pool's
\* next credential; if all N attempts hit quota errors the call returns None
\* and raises nothing.
C8_CapBounded ==
    lastOp = "cap" =>
        /\ Len(calls) <= N
        /\ Len(marked) = NumQuota
        /\ \A i \in 1..Len(marked) : calls[i][2] = "quota" /\ marked[i] = calls[i][1]
        /\ \A i \in 2..Len(calls) : calls[i][1] = (calls[i - 1][1] + 1) % N
        /\ (pc = "idle" /\ NumQuota = N => result = None)
        /\ poolError = "none"

\* every credential of a pool of at least two was tried and hit a quota error
C8_Witness ==
    CapReturned /\ N >= 2 /\ NumQuota = N /\ Len(calls) = N /\ result = None

\* C9: generate_response() never makes more than N remote attempts and never
\* reports exhaustion before N attempts have failed with quota errors.
C9_GenBoundedByPool ==
    lastOp = "gen" =>
        /\ Len(calls) <= N
        /\ (pc = "idle" /\ result = Exhausted => NumQuota >= N)

\* C10: on a non-quota error from the remote call the call ends at once: no
\* credential is marked failed, no further remote call is made, the captioner
\* returns None and the Answer Generator returns an error string.
C10_NonQuotaAborts ==
    [][ /\ (Len(calls') = Len(calls) + 1 /\ calls'[Len(calls')][2] = "other") =>
              /\ pc' = "idle"
              /\ marked' = marked
              /\ failed_keys' \subseteq failed_keys
              /\ current_key_index' = current_key_index
              /\ (lastOp' = "cap" => result' = None)
              /\ (lastOp' = "gen" =>
                      /\ Len(result') > 1
                      /\ result'[1] = "Error generating response:"
                      /\ SubSeq(result', 2, Len(result')) \in OtherErrors)
        /\ (LastKind = "other" => (calls' = calls \/ calls' = <<>>)) ]_vars

\* generate_response() ended on a non-quota error after one rotation
C10_Witness ==
    GenReturned /\ Len(calls) = 2 /\ LastKind = "other" /\ Len(marked) = 1

----------------------------------------------------------------------------
(* Claims about generate_response: exceptions, context and templates *)

\* C11: generate_response() never raises: whatever fails (retrieval, the
\* remote call, rebuilding the model client after a rotation), it returns a
\* string.
C11_GenNeverRaises ==
    GenReturned => result # <<"EXCEPTION">>

\* C16: on the text-only path, when the formatted context is empty or the
\* sentinel, generate_response() returns the insufficient-knowledge message,
\* makes no remote call and leaves the pool unchanged.
C16_ShortCircuit ==
    (lastOp = "gen" /\ ~(inputs.img /\ inputs.desc)
        /\ (Context(inputs) = <<>> \/ Context(inputs) = Sentinel)) =>
            /\ calls = <<>>
            /\ prompt = NoPrompt
            /\ marked = <<>>
            /\ failed_keys = startFailed
            /\ poolError = "none"
            /\ (pc = "idle" =>
                    result = <<"I don't have enough information in my knowledge base">>)

\* a question with an image but no caption was answered by the short circuit,
\* with failures recorded in the pool
C16_Witness ==
    /\ GenReturned /\ inputs.img /\ ~inputs.desc /\ Context(inputs) = Sentinel
    /\ result = Insufficient /\ failed_keys # {}

\* C18 as stated: no prompt sent to the remote model carries the sentinel as
\* its context, on the text-only or the multimodal path.
C18_NoSentinelPrompt ==
    prompt.context # Sentinel

\* C18 as amended: no text-only prompt sent to the remote model carries the
\* sentinel (or an empty context); a multimodal prompt is sent with whatever
\* context was formatted.
C18_NoSentinelTextPrompt ==
    /\ (prompt.template = "text" =>
            prompt.context # Sentinel /\ prompt.context # <<>>)
    /\ (prompt # NoPrompt => prompt.context = FormatContext(inputs.qr))

\* a text-only prompt was sent for a query that matched nothing in the index
C18_Witness ==
    /\ prompt.template = "text" /\ inputs.qr.text = NoHits /\ inputs.qr.image = NoHits
    /\ Len(calls) >= 1

\* C20 as stated: the multimodal template is used exactly when the image
\* description argument is non-empty, for every combination of uploaded_image
\* and image_description.
C20_TemplateByCaption ==
    prompt # NoPrompt => (prompt.template = "multimodal" <=> inputs.desc)

\* C20 as amended: the multimodal template is used exactly when uploaded_image
\* is present and image_description is non-empty, and the text-only template
\* otherwise.
C20_TemplateByImageAndCaption ==
    prompt # NoPrompt =>
        /\ prompt.template \in {"multimodal", "text"}
        /\ (prompt.template = "multimodal" <=> (inputs.img /\ inputs.desc))

\* a description without an image was answered with the text-only template
C20_Witness ==
    prompt.template = "text" /\ inputs.desc /\ ~inputs.img /\ Len(calls) >= 1

----------------------------------------------------------------------------
(* RAGChain._format_context as a function of the query result: the query   *)
(* result is drawn at the start and _format_context is applied to it.       *)

\* what VectorStore.query / query_with_uploaded_image can return
QueryResults == [text : IndexSides, image : IndexSides]

InitFormat ==
    /\ PoolLoadedFrom(FullEnvironment)
    /\ IdleOps
    /\ query_results \in QueryResults
    /\ context_out = NotFormatted
    /\ IdleFlow
    /\ IdleStore
    /\ IdleEmbed

\* context = self._format_context(query_results)
format_context ==
    /\ context_out = NotFormatted
    /\ context_out' = FormatContext(query_results)
    /\ UNCHANGED <<poolVars, opVars, callVars, threadVars, flowVars, storeVars,
                   embedVars, query_results>>

NextFormat == format_context

SpecFormat == InitFormat /\ [][NextFormat]_vars

Formatted == context_out # NotFormatted

\* number of hits of one side of a query result
Hits(sd) == Len(sd.docs)

\* C17: _format_context returns the sentinel for every query result without
\* a hit on either side, whether a side is absent or present with an empty
\* hit list.
C17_NoHitsGiveSentinel ==
    (Formatted /\ Hits(query_results.text) = 0 /\ Hits(query_results.image) = 0)
        => context_out = Sentinel

\* position in the output of the text marker and of the visual marker
TextAt == 1
VisualAt == IF query_results.text.present THEN Hits(query_results.text) + 2 ELSE 1

\* C19: with hits, the text section comes before the visual section, there
\* is one entry per hit in rank order, each entry carries its hit's source
\* (and page, for image hits) and document text verbatim, and the marker of
\* a side is present when that side has hits.
C19_SectionsAndEntries ==
    Formatted =>
        LET t == query_results.text
            v == query_results.image
        IN  /\ Hits(t) > 0 =>
                  /\ context_out[TextAt] = TextHeader
                  /\ \A i \in 1..Hits(t) :
                        context_out[TextAt + i] =
                            <<"[Source:", t.metas[i].source, t.docs[i]>>
            /\ Hits(v) > 0 =>
                  /\ context_out[VisualAt] = VisualHeader
                  /\ \A i \in 1..Hits(v) :
                        context_out[VisualAt + i] =
                            <<"[Visual from", v.metas[i].source, "Page",
                              v.metas[i].page, v.docs[i]>>
                  /\ Len(context_out) = VisualAt + Hits(v)
            /\ (Hits(t) > 0 /\ Hits(v) > 0) => TextAt + Hits(t) < VisualAt
            /\ (Hits(t) > 0 /\ Hits(v) = 0) =>
                  Len(context_out) = TextAt + Hits(t) + (IF v.present THEN 1 ELSE 0)

\* both sides have two hits and the context was formatted
C19_Witness ==
    /\ Formatted
    /\ Hits(query_results.text) = 2
    /\ Hits(query_results.image) = 2
    /\ query_results.text.docs[1] # query_results.text.docs[2]
    /\ context_out[VisualAt] = VisualHeader

----------------------------------------------------------------------------
(* RAGWorkflow (src/graph_workflow.py). The Image Captioner and the Answer  *)
(* Generator are the workflow's collaborators: within one run() the         *)
(* captioner returns a caption, returns nothing, or raises, and the Answer  *)
(* Generator returns the answer to the prompt it builds, or raises.         *)

CapBehaviours == {"caption", "none", "raise"}
GenBehaviours == {"answer", "raise"}

Requests == [img : BOOLEAN, visual : BOOLEAN, cap : CapBehaviours, gen : GenBehaviours]

\* descriptions the two strategies put in place of a caption
Caption == Tagged(TRUE)
CaptionerError == <<"captioner error">>
NoResultsDescription == <<"Image analysis returned no results">>
GraphErrorDescription == <<"Error processing image:">> \o CaptionerError
UploadedPlaceholder == <<"Image uploaded for analysis">>
ErrorPlaceholder == <<"Image processing encountered an error">>

\* truth value of an Optional[str]
Truthy(d) == d # None /\ d # <<>>

\* a graph node that never puts a description in the graph state
GraphDescriptionEmpty(req, ip) == <<>>

\* _process_image_node: the description put in the graph state
GraphDescription(req, ip) ==
    IF req.img /\ ip
    THEN CASE req.cap = "caption" -> Caption
           [] req.cap = "none"    -> NoResultsDescription
           [] req.cap = "raise"   -> GraphErrorDescription
    ELSE <<>>

\* _process_image_node: the error put in the graph state
GraphImageError(req, ip, old) ==
    IF req.img /\ ip /\ req.cap = "raise" THEN CaptionerError ELSE old

\* a linear strategy that passes the captioner's output on as it is
SimpleDescriptionNoPlaceholder(req, ip) ==
    IF req.img /\ ip /\ req.cap = "caption" THEN Tagged(TRUE) ELSE None

\* _run_simple_workflow, step 1: the local image_description
SimpleDescription(req, ip) ==
    IF req.img /\ ip
    THEN CASE req.cap = "caption" -> Caption
           [] req.cap = "none"    -> UploadedPlaceholder
           [] req.cap = "raise"   -> ErrorPlaceholder
    ELSE None

\* the prompt rag_chain.generate_response builds for an image and a description
GeneratorPrompt(img, desc) ==
    LET inp == [img |-> img, desc |-> Truthy(desc)]
    IN  [template |-> Template(inp),
         image_description |-> IF Multimodal(inp) THEN desc ELSE <<>>]

\* the answer of the remote model to a prompt
Answer(p) == <<"RESPONSE", p.template>> \o p.image_description

GeneratorError == <<"generator error">>

\* rag_chain.generate_response(question, uploaded_image, image_description)
GenerateResponse(req, desc) ==
    IF req.gen = "raise" THEN Raised ELSE Answer(GeneratorPrompt(req.img, desc))

\* _generate_response_node: response and error put in the graph state
NodeResponse(res) ==
    IF res = Raised THEN <<"Error generating response:">> \o GeneratorError ELSE res
NodeError(res, old) == IF res = Raised THEN GeneratorError ELSE old

\* a run() that never looks at the error of the graph state
GraphFailedNever(st) == FALSE

\* run(), line 247: `if result.get('error')`
GraphFailed(st) == st.error # None

\* a linear strategy without the blanket handler
SimpleReturnPropagating(res) == res

\* _run_simple_workflow, lines 196-207: the value returned
SimpleReturn(res) ==
    IF res = Raised
    THEN <<"I encountered an error processing your request.">> \o GeneratorError
    ELSE res

\* what _run_simple_workflow returns for a request
SimpleResult(req, ip) == SimpleReturn(GenerateResponse(req, SimpleDescription(req, ip)))

\* RAGWorkflow.__init__
InitWorkflow ==
    \E avail \in BOOLEAN, use \in BOOLEAN, created \in BOOLEAN :
        /\ LANGGRAPH_AVAILABLE = avail
        /\ use_langgraph = (use /\ avail /\ created)
        /\ workflow = (use /\ avail /\ created)
        /\ image_processor = FALSE

InitFlow ==
    /\ PoolLoadedFrom(FullEnvironment)
    /\ IdleOps
    /\ IdleFormat
    /\ InitWorkflow
    /\ IdleRun
    /\ IdleHistory
    /\ IdleStore
    /\ IdleEmbed

FlowUnchanged ==
    UNCHANGED <<poolVars, opVars, callVars, threadVars, fmtVars, storeVars, embedVars>>

\* the question with its visual keyword added or removed
FlipVisual(req) == [req EXCEPT !.visual = ~req.visual]

\* _analyze_query_node, lines 100-103
HasImage(req) == req.img \/ req.visual

\* a captioner that is called for every question classified as visual
CaptionerCallsOnVisual(req, ip) == IF HasImage(req) /\ ip THEN <<"captioner">> ELSE <<>>

\* the captioner is called exactly when an image was uploaded and an image
\* processor is attached
CaptionerCalls(req, ip) == IF req.img /\ ip THEN <<"captioner">> ELSE <<>>

\* one step of run() on its local variables r, for request req; raises says
\* that workflow.invoke raises at this point
RunStep(r, req, ip, raises) ==
    IF raises /\ r.rpc \in {"analyze_query", "process_image", "generate_response", "end"}
    THEN [r EXCEPT !.rpc = "simple_image", !.stages = Append(@, "raise")]
    ELSE CASE r.rpc = "analyze_query" ->
                [r EXCEPT !.state.has_image = HasImage(req),
                          !.rpc = "process_image",
                          !.stages = Append(@, "analyze_query")]
           [] r.rpc = "process_image" ->
                [r EXCEPT !.state.image_description = GraphDescription(req, ip),
                          !.state.error = GraphImageError(req, ip, r.state.error),
                          !.rpc = "generate_response",
                          !.stages = @ \o <<"process_image">> \o CaptionerCalls(req, ip)]
           [] r.rpc = "generate_response" ->
                LET res == GenerateResponse(req, r.state.image_description)
                IN  [r EXCEPT !.state.response = NodeResponse(res),
                              !.state.error = NodeError(res, r.state.error),
                              !.genCalls = Append(@, [by |-> "graph",
                                                      desc |-> r.state.image_description]),
                              !.rpc = "end",
                              !.stages = @ \o <<"generate_response", "generator", "retrieval">>]
           [] r.rpc = "end" ->
                IF GraphFailed(r.state)
                THEN [r EXCEPT !.rpc = "simple_image", !.stages = Append(@, "fallback")]
                ELSE [r EXCEPT !.run_result = r.state.response,
                               !.rpc = "idle",
                               !.stages = Append(@, "return")]
           [] r.rpc = "simple_image" ->
                [r EXCEPT !.image_description = SimpleDescription(req, ip),
                          !.rpc = "simple_generate",
                          !.stages = @ \o <<"simple_image">> \o CaptionerCalls(req, ip)]
           [] r.rpc = "simple_generate" ->
                [r EXCEPT !.genCalls = Append(@, [by |-> "simple",
                                                  desc |-> r.image_description]),
                          !.run_result =
                              SimpleReturn(GenerateResponse(req, r.image_description)),
                          !.rpc = "idle",
                          !.stages = @ \o <<"generator", "retrieval", "return">>]
           [] OTHER -> r

\* the twin run takes the step the running run() takes
TwinSteps(raises) ==
    twin' = RunStep(twin, FlipVisual(request), image_processor, raises)

\* a strategy choice that looks at the compiled graph only
GraphModeWorkflowOnly == workflow

\* `if self.use_langgraph and self.workflow`
GraphMode == use_langgraph /\ workflow

GraphPositions == {"analyze_query", "process_image", "generate_response", "end"}

\* run(), lines 229-243 and 266: the strategy is chosen
RunStart ==
    \E req \in Requests :
        /\ rpc = "idle"
        /\ request' = req
        /\ state' = InitialState(req.img)
        /\ image_description' = None
        /\ genCalls' = <<>>
        /\ run_result' = NotReturned
        /\ raised_in_run' = FALSE
        /\ graph_used' = GraphMode
        /\ rpc' = IF GraphMode THEN "analyze_query" ELSE "simple_image"
        /\ stages' = <<>>
        /\ twin' = StartedRun(FlipVisual(req).img, GraphMode)
        /\ UNCHANGED <<modeVars, graphRaised, enabledAfterRaise, flowOp, flowRet>>
        /\ FlowUnchanged

\* _analyze_query_node
analyze_query_node ==
    /\ rpc = "analyze_query"
    /\ state' = [state EXCEPT !.has_image = HasImage(request)]
    /\ rpc' = "process_image"
    /\ stages' = Append(stages, "analyze_query")
    /\ TwinSteps(FALSE)
    /\ UNCHANGED <<modeVars, request, image_description, genCalls, run_result,
                   graph_used, raised_in_run, graphRaised, enabledAfterRaise,
                   flowOp, flowRet>>
    /\ FlowUnchanged

\* _process_image_node
process_image_node ==
    /\ rpc = "process_image"
    /\ state' = [state EXCEPT
                    !.image_description = GraphDescription(request, image_processor),
                    !.error = GraphImageError(request, image_processor, state.error)]
    /\ rpc' = "generate_response"
    /\ stages' = stages \o <<"process_image">> \o CaptionerCalls(request, image_processor)
    /\ TwinSteps(FALSE)
    /\ UNCHANGED <<modeVars, request, image_description, genCalls, run_result,
                   graph_used, raised_in_run, graphRaised, enabledAfterRaise,
                   flowOp, flowRet>>
    /\ FlowUnchanged

\* _generate_response_node
generate_response_node ==
    /\ rpc = "generate_response"
    /\ LET res == GenerateResponse(request, state.image_description)
       IN  state' = [state EXCEPT !.response = NodeResponse(res),
                                  !.error = NodeError(res, state.error)]
    /\ genCalls' = Append(genCalls, [by |-> "graph", desc |-> state.image_description])
    /\ rpc' = "end"
    /\ stages' = stages \o <<"generate_response", "generator", "retrieval">>
    /\ TwinSteps(FALSE)
    /\ UNCHANGED <<modeVars, request, image_description, run_result,
                   graph_used, raised_in_run, graphRaised, enabledAfterRaise,
                   flowOp, flowRet>>
    /\ FlowUnchanged

\* run(), lines 243-252: workflow.invoke returned
GraphReturn ==
    /\ rpc = "end"
    /\ IF GraphFailed(state)
       THEN /\ rpc' = "simple_image"
            /\ stages' = Append(stages, "fallback")
            /\ UNCHANGED <<run_result, flowOp>>
       ELSE /\ run_result' = state.response
            /\ rpc' = "idle"
            /\ stages' = Append(stages, "return")
            /\ flowOp' = "run"
    /\ TwinSteps(FALSE)
    /\ UNCHANGED <<modeVars, request, state, image_description, genCalls,
                   graph_used, raised_in_run, graphRaised, enabledAfterRaise, flowRet>>
    /\ FlowUnchanged

\* run(), lines 254-263: workflow.invoke raised, before or after any node
GraphRaise ==
    /\ rpc \in GraphPositions
    /\ use_langgraph' = FALSE
    /\ raised_in_run' = TRUE
    /\ graphRaised' = TRUE
    /\ enabledAfterRaise' = FALSE
    /\ rpc' = "simple_image"
    /\ stages' = Append(stages, "raise")
    /\ TwinSteps(TRUE)
    /\ UNCHANGED <<LANGGRAPH_AVAILABLE, workflow, image_processor, request, state,
                   image_description, genCalls, run_result, graph_used, flowOp, flowRet>>
    /\ FlowUnchanged

\* _run_simple_workflow, step 1
SimpleImage ==
    /\ rpc = "simple_image"
    /\ image_description' = SimpleDescription(request, image_processor)
    /\ rpc' = "simple_generate"
    /\ stages' = stages \o <<"simple_image">> \o CaptionerCalls(request, image_processor)
    /\ TwinSteps(FALSE)
    /\ UNCHANGED <<modeVars, request, state, genCalls, run_result,
                   graph_used, raised_in_run, graphRaised, enabledAfterRaise,
                   flowOp, flowRet>>
    /\ FlowUnchanged

\* _run_simple_workflow, step 2 and the return of run()
SimpleGenerate ==
    /\ rpc = "simple_generate"
    /\ genCalls' = Append(genCalls, [by |-> "simple", desc |-> image_description])
    /\ run_result' = SimpleReturn(GenerateResponse(request, image_description))
    /\ rpc' = "idle"
    /\ stages' = stages \o <<"generator", "retrieval", "return">>
    /\ TwinSteps(FALSE)
    /\ flowOp' = "run"
    /\ UNCHANGED <<modeVars, request, state, image_description,
                   graph_used, raised_in_run, graphRaised, enabledAfterRaise, flowRet>>
    /\ FlowUnchanged

\* RAGWorkflow.set_image_processor
set_image_processor ==
    /\ rpc = "idle"
    /\ image_processor' = TRUE
    /\ flowOp' = "set_image_processor"
    /\ flowRet' = None
    /\ UNCHANGED <<LANGGRAPH_AVAILABLE, use_langgraph, workflow, runVars,
                   graphRaised, enabledAfterRaise>>
    /\ FlowUnchanged

\* RAGWorkflow.get_workflow_mode
get_workflow_mode ==
    /\ rpc = "idle"
    /\ flowOp' = "get_workflow_mode"
    /\ flowRet' = IF GraphMode THEN <<"LangGraph">> ELSE <<"Simple">>
    /\ UNCHANGED <<modeVars, runVars, graphRaised, enabledAfterRaise>>
    /\ FlowUnchanged

\* RAGWorkflow.force_simple_mode
force_simple_mode ==
    /\ rpc = "idle"
    /\ use_langgraph' = FALSE
    /\ workflow' = FALSE
    /\ flowOp' = "force_simple_mode"
    /\ flowRet' = None
    /\ UNCHANGED <<LANGGRAPH_AVAILABLE, image_processor, runVars,
                   graphRaised, enabledAfterRaise>>
    /\ FlowUnchanged

\* RAGWorkflow.try_enable_langgraph; created: _create_langgraph_workflow did not raise
try_enable_langgraph ==
    \E created \in BOOLEAN :
        /\ rpc = "idle"
        /\ flowOp' = "try_enable_langgraph"
        /\ IF LANGGRAPH_AVAILABLE /\ created
           THEN /\ workflow' = TRUE
                /\ use_langgraph' = TRUE
                /\ enabledAfterRaise' = graphRaised
                /\ flowRet' = <<"True">>
           ELSE /\ flowRet' = <<"False">>
                /\ UNCHANGED <<workflow, use_langgraph, enabledAfterRaise>>
        /\ UNCHANGED <<LANGGRAPH_AVAILABLE, image_processor, runVars, graphRaised>>
        /\ FlowUnchanged

NextFlow ==
    \/ RunStart
    \/ analyze_query_node
    \/ process_image_node
    \/ generate_response_node
    \/ GraphReturn
    \/ GraphRaise
    \/ SimpleImage
    \/ SimpleGenerate
    \/ set_image_processor
    \/ get_workflow_mode
    \/ force_simple_mode
    \/ try_enable_langgraph

SpecFlow == InitFlow /\ [][NextFlow]_vars

----------------------------------------------------------------------------
(* Claims about RAGWorkflow *)

\* the last public operation was a run(), which has returned
RunReturned == rpc = "idle" /\ flowOp = "run"

\* a run() is being started
RunStarts == rpc = "idle" /\ rpc' # "idle"

\* C12: run() always returns a string and never lets an exception out,
\* whichever strategy is active and whichever of the captioner, the graph
\* runtime and the Answer Generator raise.
C12_RunReturnsString ==
    RunReturned =>
        /\ run_result \notin {Raised, NotReturned, None}
        /\ run_result \in Seq(STRING)

\* a run() returned in which the captioner, the graph runtime and the Answer
\* Generator all raised
C12_Witness ==
    /\ RunReturned
    /\ request.img /\ image_processor
    /\ request.cap = "raise" /\ request.gen = "raise"
    /\ raised_in_run
    /\ Len(genCalls) = 2

\* C13: when the graph invocation raises in a run(), that run() returns what
\* the linear strategy returns for the same inputs, and the run() called
\* immediately after it executes the linear strategy without invoking the
\* graph.
C13_FallbackThenLinear ==
    [][ /\ (RunReturned /\ raised_in_run)' =>
               (run_result = SimpleResult(request, image_processor))'
        /\ (RunReturned /\ raised_in_run /\ RunStarts) =>
               (~graph_used' /\ rpc' = "simple_image") ]_vars

\* the graph runtime raised after its nodes had run with an image whose
\* caption came back empty, and run() returned
C13_Witness ==
    /\ RunReturned /\ raised_in_run
    /\ request.img /\ image_processor /\ request.cap = "none"
    /\ Len(genCalls) = 2
    /\ genCalls[1].by = "graph" /\ genCalls[2].by = "simple"
    /\ run_result = SimpleResult(request, image_processor)

\* C14: once the graph invocation has raised in a run(), no later run()
\* invokes the graph, whatever public operations are called in between.
C14_NeverGraphAgain ==
    [][ (graphRaised /\ RunStarts) => ~graph_used' ]_vars

\* C14, amended: once the graph invocation has raised in a run(), no later
\* run() invokes the graph unless try_enable_langgraph() has returned True
\* in between.
C14_NoGraphUntilEnabled ==
    [][ (graphRaised /\ ~enabledAfterRaise /\ RunStarts) => ~graph_used' ]_vars

\* after a raise, with the compiled graph still held and the library
\* available, a later run() returned without having invoked the graph
C14_Witness ==
    /\ graphRaised /\ ~enabledAfterRaise
    /\ LANGGRAPH_AVAILABLE /\ workflow
    /\ RunReturned /\ ~raised_in_run /\ ~graph_used

\* two image descriptions that the Answer Generator cannot tell apart
SameDescription(a, b) == a = b \/ (~Truthy(a) /\ ~Truthy(b))

\* C15: the two strategies are equivalent: for the same request and the same
\* behaviour of the captioner, every call of the Answer Generator made by
\* the graph strategy passes the image description the linear strategy
\* passes, and a run() answered by the graph returns the string the linear
\* strategy returns.
C15_StrategiesEquivalent ==
    /\ \A i \in 1..Len(genCalls) :
          genCalls[i].by = "graph" =>
              SameDescription(genCalls[i].desc,
                              SimpleDescription(request, image_processor))
    /\ (RunReturned /\ graph_used /\ ~raised_in_run /\ state.error = None) =>
          run_result = SimpleResult(request, image_processor)

\* a run() is executing or has just returned: the workflow's fields are those
\* the run() works with
RunInHand == rpc # "idle" \/ RunReturned

\* the prompt built by the i-th Answer Generator call of the running run()
PromptOfCall(i) == GeneratorPrompt(request.img, genCalls[i].desc)

\* C21: in a run() with an uploaded image, an attached image processor and a
\* captioner that returns a caption, the prompt of every Answer Generator
\* call, under either strategy, is built from the multimodal template and
\* contains the caption verbatim.
C21_CaptionInMultimodalPrompt ==
    (RunInHand /\ request.img /\ image_processor /\ request.cap = "caption") =>
        \A i \in 1..Len(genCalls) :
            /\ PromptOfCall(i).template = "multimodal"
            /\ Contains(PromptOfCall(i).image_description, Caption)

\* the graph strategy answered a request whose image got a caption
C21_Witness ==
    /\ RunReturned /\ graph_used /\ ~raised_in_run
    /\ request.img /\ image_processor /\ request.cap = "caption"
    /\ request.gen = "answer"
    /\ Len(genCalls) = 1 /\ genCalls[1].by = "graph"
    /\ Contains(run_result, Caption)

\* C22: the visual-query classification does not influence execution: the
\* run() of a question that differs only in its visual keyword goes through
\* the same stages, makes the same captioner and Answer Generator calls and
\* returns the same string.
C22_VisualKeywordNoInfluence ==
    /\ twin.rpc = rpc
    /\ twin.stages = stages
    /\ twin.genCalls = genCalls
    /\ twin.image_description = image_description
    /\ twin.run_result = run_result

\* the graph answered a question with a visual keyword and no image, and the
\* classification of the twin question differs
C22_Witness ==
    /\ RunReturned /\ graph_used /\ ~raised_in_run
    /\ request.visual /\ ~request.img
    /\ state.has_image /\ ~twin.state.has_image
    /\ Len(stages) > 3

\* positions of stages at which collaborator or marker what appears
StagesOf(what) == { i \in 1..Len(stages) : stages[i] = what }

\* C32: during run() the Image Captioner is invoked if and only if an image
\* was uploaded, under either strategy and in every workflow state reachable
\* through the public operations, a workflow without an attached image
\* processor included.
C32_CaptionerIffImage ==
    RunReturned => (StagesOf("captioner") # {} <=> request.img)

\* the placeholders the strategies put in place of a missing caption
Placeholders ==
    {NoResultsDescription, GraphErrorDescription, UploadedPlaceholder, ErrorPlaceholder}

\* the captioner of the run() in hand was called and gave no caption
CaptioningFailed ==
    RunInHand /\ request.img /\ image_processor /\ request.cap \in {"none", "raise"}

\* C33: a captioning failure is not fatal: when an image is uploaded and the
\* captioner returns no caption or raises, under either strategy run() calls
\* the Answer Generator, passes it a non-empty placeholder as the image
\* description, and returns the result of its last call.
C33_CaptionFailureNotFatal ==
    CaptioningFailed =>
        /\ \A i \in 1..Len(genCalls) :
              genCalls[i].desc \in Placeholders /\ genCalls[i].desc # <<>>
        /\ RunReturned =>
              /\ genCalls # <<>>
              /\ run_result \notin {Raised, NotReturned}
              /\ (request.gen = "answer" =>
                     run_result = <<"RESPONSE", "multimodal">>
                                      \o genCalls[Len(genCalls)].desc)

\* under the graph strategy the captioner raised, and run() returned the
\* answer the Answer Generator gave for the linear strategy's placeholder
C33_Witness ==
    /\ CaptioningFailed /\ RunReturned
    /\ graph_used /\ ~raised_in_run
    /\ request.cap = "raise" /\ request.gen = "answer"
    /\ Len(genCalls) = 2
    /\ run_result = <<"RESPONSE", "multimodal">> \o ErrorPlaceholder

\* a run() returned whose graph recorded an error without the invocation raising
ErrorRecorded == RunReturned /\ graph_used /\ ~raised_in_run /\ state.error # None

\* what the linear strategy returns for the request in hand
LinearAnswer ==
    IF request.gen = "raise"
    THEN <<"I encountered an error processing your request.">> \o GeneratorError
    ELSE Answer(GeneratorPrompt(request.img, SimpleDescription(request, image_processor)))

C35_AtMostOnce ==
    /\ Cardinality(StagesOf("generator")) <= 1
    /\ Cardinality(StagesOf("captioner")) <= 1

\* positions of stages at which a strategy execution is abandoned
Abandoned == StagesOf("fallback") \cup StagesOf("raise")

\* positions i and j of stages belong to the same strategy execution
SameExecution(i, j) == ~\E k \in Abandoned : i < k /\ k < j

\* the description the strategies derive from what the captioner did
Derived(by) ==
    CASE request.cap = "caption" -> Caption
      [] request.cap = "none" ->
            IF by = "graph" THEN NoResultsDescription ELSE UploadedPlaceholder
      [] request.cap = "raise" ->
            IF by = "graph" THEN GraphErrorDescription ELSE ErrorPlaceholder

\* C36: within each strategy execution the Image Captioner call, when there
\* is one, has returned before the Answer Generator is invoked, and the
\* description passed to the Answer Generator is the one derived from that
\* call; the retrieval for the answer is made inside the Answer Generator,
\* after captioning.
C36_CaptionBeforeGenerate ==
    RunInHand =>
        /\ \A i \in StagesOf("generator"), j \in StagesOf("captioner") :
              i < j => ~SameExecution(i, j)
        /\ \A i \in StagesOf("retrieval") :
              /\ i > 1 /\ stages[i - 1] = "generator"
              /\ \A j \in StagesOf("captioner") : i < j => ~SameExecution(i, j)
        /\ Cardinality(StagesOf("retrieval")) = Len(genCalls)
        /\ \A i \in 1..Len(genCalls) :
              IF request.img /\ image_processor
              THEN genCalls[i].desc = Derived(genCalls[i].by)
              ELSE ~Truthy(genCalls[i].desc)

\* both strategies ran in one run(): each called the captioner, then the
\* Answer Generator with the description derived from that call
C36_Witness ==
    /\ RunReturned /\ request.img /\ image_processor /\ request.cap = "none"
    /\ Cardinality(StagesOf("captioner")) = 2
    /\ Cardinality(StagesOf("retrieval")) = 2
    /\ genCalls[1].desc = NoResultsDescription
    /\ genCalls[2].desc = UploadedPlaceholder

----------------------------------------------------------------------------
(* VectorStore (src/vector_store.py). A collection is the set of the ids of *)
(* its records; the similarity ranking of a query is a fixed order of the   *)
(* records (by id), so a collection query for n hits returns the first n    *)
(* records of that order, fewer if the collection holds fewer.              *)

\* chunks (image descriptions) passed to one ingestion call
MaxChunks == 4

\* n_results values the queries are called with
MaxK == 4

\* `min(n_results, 3)`
ImageCap == 3

\* an image-description query that asks for as many hits as the text query
ImageResultsUncapped(k) == k

\* n_results of the image-description collection query
ImageResults(k) == Min(k, ImageCap)

\* f"text_{idx}" / f"image_{idx}" of the chunks whose embedding was produced;
\* failAt is the index of the chunk whose embedding failed, -1 if none did
EmbeddedFirstOnly(c, failAt) == IF c > 0 THEN {0} ELSE {}

Embedded(c, failAt) == 0..(c - 1) \ {failAt}

\* collection.add: a record whose id is already held is not added again
CollectionAdd(col, ids) == col \cup ids

RECURSIVE Ranked(_)
Ranked(col) ==
    IF col = {} THEN <<>>
    ELSE LET first == CHOOSE x \in col : \A y \in col : x <= y
         IN  <<first>> \o Ranked(col \ {first})

StoredDoc(id) == <<"chunk", id>>
StoredMeta(id) == [source |-> "a.pdf", page |-> "1"]

\* collection.query(query_embeddings=[e], n_results=n)
CollectionQuery(col, n) ==
    LET hits == SubSeq(Ranked(col), 1, Min(n, Cardinality(col)))
    IN  [present |-> TRUE,
         docs |-> [i \in 1..Len(hits) |-> StoredDoc(hits[i])],
         metas |-> [i \in 1..Len(hits) |-> StoredMeta(hits[i])]]

\* a collection query whose hits are dropped
QuerySideNoHits(col, n, fails) == AbsentSide

\* one `try: ... collection.query ... except: ... = {}` block
QuerySide(col, n, fails) == IF fails THEN AbsentSide ELSE CollectionQuery(col, n)

\* a combined query that searches with the embedding that was produced
CombinedSearchableEither(textOk, imageOk) == textOk \/ imageOk

\* `if not text_embedding or not image_embedding: return` (line 183), negated
CombinedSearchable(textOk, imageOk) == textOk /\ imageOk

\* the two collection queries of a query with n_results = k
SearchBoth(k, textFails, imageFails) ==
    [text |-> QuerySide(text_collection, k, textFails),
     image |-> QuerySide(image_collection, ImageResults(k), imageFails)]

QueriesMade(k) == << [col |-> "text", n |-> k], [col |-> "image", n |-> ImageResults(k)] >>

QueryOps == {"query", "query_with_uploaded_image"}

\* the result of the last query was taken by its caller: the next query
\* comes after it
NoQueryRecord == storeOp \notin QueryOps

InitStore ==
    /\ PoolLoadedFrom(FullEnvironment)
    /\ IdleOps
    /\ IdleFormat
    /\ IdleFlow
    /\ IdleStore
    /\ IdleEmbed

StoreUnchanged ==
    UNCHANGED <<poolVars, opVars, callVars, threadVars, fmtVars, flowVars, embedVars>>

\* VectorStore.add_text_chunks(chunks), len(chunks) = c
add_text_chunks ==
    \E c \in 0..MaxChunks, failAt \in -1..(MaxChunks - 1) :
        /\ failAt < c
        /\ text_collection' = CollectionAdd(text_collection, Embedded(c, failAt))
        /\ storeOp' = "add_text_chunks"
        /\ storeArgs' = [op |-> "add", c |-> c, allOk |-> failAt = -1]
        /\ query_out' = NoQuery
        /\ colQueries' = <<>>
        /\ stats' = NoStats
        /\ UNCHANGED image_collection
        /\ StoreUnchanged

\* VectorStore.add_image_descriptions(image_data), len(image_data) = c
add_image_descriptions ==
    \E c \in 0..MaxChunks, failAt \in -1..(MaxChunks - 1) :
        /\ failAt < c
        /\ image_collection' = CollectionAdd(image_collection, Embedded(c, failAt))
        /\ storeOp' = "add_image_descriptions"
        /\ storeArgs' = [op |-> "add", c |-> c, allOk |-> failAt = -1]
        /\ query_out' = NoQuery
        /\ colQueries' = <<>>
        /\ stats' = NoStats
        /\ UNCHANGED text_collection
        /\ StoreUnchanged

QueryArgs(op, k, textOk, imageOk, textFails, imageFails) ==
    [op |-> op, k |-> k, textOk |-> textOk, imageOk |-> imageOk,
     textFails |-> textFails, imageFails |-> imageFails]

\* VectorStore.query(query_text, n_results = k); embOk: the embedding of the
\* query text (of query_image, when given) was produced
query ==
    \E k \in 1..MaxK, embOk \in BOOLEAN, textFails \in BOOLEAN, imageFails \in BOOLEAN :
        /\ NoQueryRecord
        /\ ~embOk => (~textFails /\ ~imageFails)
        /\ storeOp' = "query"
        /\ storeArgs' = QueryArgs("query", k, embOk, embOk, textFails, imageFails)
        /\ IF embOk
           THEN /\ query_out' = SearchBoth(k, textFails, imageFails)
                /\ colQueries' = QueriesMade(k)
           ELSE /\ query_out' = NoQuery
                /\ colQueries' = <<>>
        /\ stats' = NoStats
        /\ UNCHANGED colVars
        /\ StoreUnchanged

\* VectorStore.query_with_uploaded_image(query_text, uploaded_image, n_results = k)
query_with_uploaded_image ==
    \E k \in 1..MaxK, textOk \in BOOLEAN, imageOk \in BOOLEAN,
       textFails \in BOOLEAN, imageFails \in BOOLEAN :
        /\ NoQueryRecord
        /\ ~CombinedSearchable(textOk, imageOk) => (~textFails /\ ~imageFails)
        /\ storeOp' = "query_with_uploaded_image"
        /\ storeArgs' = QueryArgs("query_with_uploaded_image", k, textOk, imageOk,
                                  textFails, imageFails)
        /\ IF CombinedSearchable(textOk, imageOk)
           THEN /\ query_out' = SearchBoth(k, textFails, imageFails)
                /\ colQueries' = QueriesMade(k)
           ELSE /\ query_out' = NoQuery
                /\ colQueries' = <<>>
        /\ stats' = NoStats
        /\ UNCHANGED colVars
        /\ StoreUnchanged

\* VectorStore.clear_all(); fails: the database client raised, which is caught
clear_all ==
    \E fails \in BOOLEAN :
        /\ IF fails THEN UNCHANGED colVars
           ELSE text_collection' = {} /\ image_collection' = {}
        /\ storeOp' = "clear_all"
        /\ storeArgs' = [op |-> "clear_all", fails |-> fails]
        /\ query_out' = NoQuery
        /\ colQueries' = <<>>
        /\ stats' = NoStats
        /\ StoreUnchanged

\* VectorStore.get_statistics(); fails: count() raised, which is caught
get_statistics ==
    \E fails \in BOOLEAN :
        /\ storeOp' = "get_statistics"
        /\ storeArgs' = [op |-> "get_statistics", fails |-> fails]
        /\ stats' = IF fails THEN NoStats
                    ELSE [text_chunks |-> Cardinality(text_collection),
                          image_descriptions |-> Cardinality(image_collection),
                          total |-> Cardinality(text_collection)
                                        + Cardinality(image_collection)]
        /\ query_out' = NoQuery
        /\ colQueries' = <<>>
        /\ UNCHANGED colVars
        /\ StoreUnchanged

NextStore ==
    \/ add_text_chunks
    \/ add_image_descriptions
    \/ query
    \/ query_with_uploaded_image
    \/ clear_all
    \/ get_statistics

SpecStore == InitStore /\ [][NextStore]_vars

----------------------------------------------------------------------------
(* Claims about VectorStore *)

\* the last operation was a query that reached the collections
Searched == storeOp \in QueryOps /\ colQueries # <<>>

\* generate_response goes on to call the remote model with this query
\* result, on the text-only path as well
Proceeds(qr) == ~ContextMissing(FormatContext(qr))

\* C23: when exactly one of the two collection queries of query() or
\* query_with_uploaded_image() fails, the call returns the other
\* collection's hits unchanged with the failed side empty, and the Answer
\* Generator goes on to call the remote model with the one-sided context.
C23_PartialFailure ==
    (Searched /\ storeArgs.textFails # storeArgs.imageFails) =>
        /\ storeArgs.textFails =>
              /\ query_out.text = AbsentSide
              /\ query_out.image =
                     CollectionQuery(image_collection, Min(storeArgs.k, 3))
        /\ storeArgs.imageFails =>
              /\ query_out.image = AbsentSide
              /\ query_out.text = CollectionQuery(text_collection, storeArgs.k)
        /\ Proceeds(query_out)

\* the image collection failed in a combined query and two text hits came back
C23_Witness ==
    /\ storeOp = "query_with_uploaded_image"
    /\ storeArgs.imageFails /\ ~storeArgs.textFails
    /\ query_out.image = AbsentSide
    /\ Len(query_out.text.docs) = 2
    /\ image_collection # {}

\* C24: when the text embedding or the image embedding of a combined query
\* fails, query_with_uploaded_image() returns empty results for both
\* channels and queries neither collection: it never searches with the one
\* embedding that was produced.
C24_NoDegradedSearch ==
    (storeOp = "query_with_uploaded_image"
        /\ ~(storeArgs.textOk /\ storeArgs.imageOk)) =>
        /\ query_out = [text |-> AbsentSide, image |-> AbsentSide]
        /\ colQueries = <<>>

\* only the image embedding failed, over collections that hold records
C24_Witness ==
    /\ storeOp = "query_with_uploaded_image"
    /\ storeArgs.textOk /\ ~storeArgs.imageOk
    /\ text_collection # {} /\ image_collection # {}
    /\ query_out = NoQuery

\* C25: a query with n_results = k asks the text collection for at most k
\* hits and the image-description collection for at most min(k, 3), and the
\* returned lists are no longer than that.
C25_ResultCaps ==
    storeOp \in QueryOps =>
        /\ \A i \in 1..Len(colQueries) :
              /\ colQueries[i].col = "text" => colQueries[i].n <= storeArgs.k
              /\ colQueries[i].col = "image" => colQueries[i].n <= Min(storeArgs.k, 3)
        /\ Len(query_out.text.docs) <= storeArgs.k
        /\ Len(query_out.image.docs) <= Min(storeArgs.k, 3)

\* k = 4 over collections of four records: three image hits, four text hits
C25_Witness ==
    /\ storeOp \in QueryOps
    /\ storeArgs.k = 4
    /\ Cardinality(image_collection) = 4 /\ Cardinality(text_collection) = 4
    /\ Len(query_out.image.docs) = 3
    /\ Len(query_out.text.docs) = 4

\* C29: ingesting c text chunks (i image descriptions) into an empty
\* collection, with all embeddings succeeding, leaves exactly c (i) records
\* in it, and get_statistics() reports the sizes of the two collections.
C29_IngestCounts ==
    [][ /\ (storeOp' = "add_text_chunks" /\ storeArgs'.allOk /\ text_collection = {})
              => Cardinality(text_collection') = storeArgs'.c
        /\ (storeOp' = "add_image_descriptions" /\ storeArgs'.allOk
                /\ image_collection = {})
              => Cardinality(image_collection') = storeArgs'.c
        /\ (storeOp' = "get_statistics" /\ ~storeArgs'.fails)
              => /\ stats'.text_chunks = Cardinality(text_collection)
                 /\ stats'.image_descriptions = Cardinality(image_collection) ]_vars

\* three text chunks and one image description are held and reported
C29_Witness ==
    /\ storeOp = "get_statistics"
    /\ text_collection = {0, 1, 2}
    /\ image_collection = {0}
    /\ stats = [text_chunks |-> 3, image_descriptions |-> 1, total |-> 4]

\* C37: record ids are unique across a collection: in any sequence of
\* add_text_chunks() and add_image_descriptions() calls without a
\* clear_all() in between, no call assigns an id the collection already
\* holds, so that ingesting a and then b records leaves a + b records stored.
C37_IdsUnique ==
    [][ /\ (storeOp' = "add_text_chunks" /\ storeArgs'.allOk) =>
              /\ Embedded(storeArgs'.c, -1) \cap text_collection = {}
              /\ Cardinality(text_collection') =
                     Cardinality(text_collection) + storeArgs'.c
        /\ (storeOp' = "add_image_descriptions" /\ storeArgs'.allOk) =>
              /\ Embedded(storeArgs'.c, -1) \cap image_collection = {}
              /\ Cardinality(image_collection') =
                     Cardinality(image_collection) + storeArgs'.c ]_vars

----------------------------------------------------------------------------
(* The combined query vector of query_with_uploaded_image (lines 186-188).  *)
(* A float is held as a whole number of halves, which represents the        *)
(* integer-valued components and their means exactly.                       *)

\* dimension of the embedding vectors
MaxDim == 2

\* the components of the embedding vectors are in -MaxComp..MaxComp
MaxComp == 1

\* halves per unit
Unit == 2

Components == (-MaxComp)..MaxComp

\* embedding.tolist(): integer-valued components as floats
Float(n) == n * Unit

Embeddings(d) == [1..d -> {Float(n) : n \in Components}]

\* a combination that adds the vectors without halving the sum
CombinedSum(t, i) == [k \in 1..Len(t) |-> t[k] + i[k]]

\* (np.array(text_embedding) + np.array(image_embedding)) / 2, then tolist()
Combined(t, i) == [k \in 1..Len(t) |-> (t[k] + i[k]) \div 2]

InitEmbed ==
    /\ PoolLoadedFrom(FullEnvironment)
    /\ IdleOps
    /\ IdleFormat
    /\ IdleFlow
    /\ IdleStore
    /\ \E d \in 1..MaxDim :
          /\ text_embedding \in Embeddings(d)
          /\ image_embedding \in Embeddings(d)
    /\ combined_embedding = <<>>

\* lines 186-188
combine_embeddings ==
    /\ combined_embedding = <<>>
    /\ combined_embedding' = Combined(text_embedding, image_embedding)
    /\ UNCHANGED <<poolVars, opVars, callVars, threadVars, fmtVars, flowVars,
                   storeVars, text_embedding, image_embedding>>

NextEmbed == combine_embeddings

SpecEmbed == InitEmbed /\ [][NextEmbed]_vars

\* C26: the combined query vector has the dimension of its inputs, each of
\* its components is the mean of the corresponding text and image
\* components, and averaging a vector with itself yields that vector.
C26_CombinedIsMean ==
    combined_embedding # <<>> =>
        /\ Len(combined_embedding) = Len(text_embedding)
        /\ Len(combined_embedding) = Len(image_embedding)
        /\ \A k \in 1..Len(combined_embedding) :
              2 * combined_embedding[k] = text_embedding[k] + image_embedding[k]
        /\ text_embedding = image_embedding => combined_embedding = text_embedding

\* two different vectors of dimension 2 whose mean is not a whole number
C26_Witness ==
    /\ Len(combined_embedding) = 2
    /\ text_embedding # image_embedding
    /\ combined_embedding[1] % Unit = 1
    /\ 2 * combined_embedding[2] = text_embedding[2] + image_embedding[2]

----------------------------------------------------------------------------
(* Claims about the credential the Answer Generator calls with *)

\* the running generate_response makes a remote call in this step
GenCalls == lastOp' = "gen" /\ Len(calls') = Len(calls) + 1

\* C30: every remote call of the Answer Generator uses the credential the
\* pool designates as current when the call is made; in particular it does
\* not call with a credential that is marked failed while another
\* credential is available.
C30_GenUsesCurrentKey ==
    [][ GenCalls =>
            /\ calls'[Len(calls')][1] = current_key_index
            /\ ~(calls'[Len(calls')][1] \in failed_keys /\ Available > 0) ]_vars

\* a credential is marked failed by the running call in this step
CallMarks == Len(marked') = Len(marked) + 1

\* C28: a credential is marked failed only in response to an error that is a
\* quota / rate-limit (or authentication) signal: at every call site of
\* mark_key_failed(), vision-model initialisation included, an error of any
\* other kind leaves the pool unchanged.
C28_MarkOnlyOnQuota ==
    [][ CallMarks =>
            IF lastOp' = "vinit"
            THEN InitAttemptKind = "quota"
            ELSE calls'[Len(calls')][2] = "quota" ]_vars

\* C31: whenever mark_key_failed() is called because a remote call hit a
\* quota error, the index it marks failed is the index of the credential
\* that was used for that failing call, for every interleaving of captioner
\* and Answer Generator calls.
C31_MarkedIsUsed ==
    [][ (Len(calls') = Len(calls) + 1 /\ Len(marked') = Len(marked) + 1) =>
            marked'[Len(marked')] = calls'[Len(calls')][1] ]_vars

----------------------------------------------------------------------------
(* Repeated text-only requests against a remote service that accepts one    *)
(* credential for good and answers every other credential with a quota      *)
(* error. The pool and the model client start in any state.                 *)

GoodKey == <<"g">>

\* the remote service accepts this credential
Accepted(key) == key = GoodKey

\* the quota errors a generate_response call started with the client bound
\* to credential llm and the pool at cur meets before the service accepts
\* (at most n of them): each one rotates the pool and rebinds the client
RECURSIVE QuotaRun(_, _, _)
QuotaRun(llm, cur, n) ==
    IF n = 0 \/ Accepted(api_keys[llm + 1]) THEN 0
    ELSE 1 + QuotaRun(NextIndex(cur, api_keys), NextIndex(cur, api_keys), n - 1)

\* what the remote service does during a call started now
LiveScript == [quota |-> QuotaRun(llm_key, current_key_index, N), thenOk |-> TRUE]

\* a text-only question for which retrieval finds a text hit
LiveInput == [img |-> FALSE, desc |-> FALSE, qr |-> [text |-> Hit1, image |-> AbsentSide],
              userQuery |-> FALSE, saveFails |-> FALSE]

InitLive ==
    /\ \E n \in 1..MaxSlots :
          /\ \E g \in 1..n :
                api_keys = [i \in 1..n |-> IF i = g THEN GoodKey ELSE <<"k">>]
          /\ configured = n
          /\ current_key_index \in 0..(n - 1)
          /\ failed_keys \in SUBSET (0..(n - 1))
          /\ llm_key \in 0..(n - 1)
    /\ ctorError = FALSE
    /\ poolError = "none"
    /\ lastOp = "none"
    /\ ret = -1
    /\ marksSinceGet = 0
    /\ IdleCall
    /\ IdleThreads
    /\ IdleFormat
    /\ IdleFlow
    /\ IdleStore
    /\ IdleEmbed

\* the next request
LiveGenStart == GenStart /\ inputs' = LiveInput /\ script' = LiveScript

\* an attempt of the running request; the model client is rebuilt when needed
LiveGenAttempt == GenAttempt /\ result' # Raised

NextLive ==
    \/ LiveGenStart
    \/ LiveGenAttempt
    \/ get_available_keys_count
    \/ get_current_key

\* requests keep coming, each runs to its end, and the UI reads the pool
\* after each
SpecLive ==
    /\ InitLive
    /\ [][NextLive]_vars
    /\ WF_vars(LiveGenStart)
    /\ WF_vars(LiveGenAttempt)
    /\ WF_vars(get_available_keys_count)

Answered == GenReturned /\ result = Response

\* C27: the system never locks up on credential exhaustion: from any pool
\* state get_current_key() returns a credential; and when the remote
\* service accepts one credential for good and answers all others with
\* quota errors, repeated text-only requests eventually get an answer, and
\* every request after that one is answered as well.
C27_NoLockup ==
    /\ [](lastOp = "get" => (poolError = "none" /\ ret \in 0..(N - 1)))
    /\ [][GenCalls => (calls'[Len(calls')][2] = "ok"
                          <=> Accepted(api_keys[calls'[Len(calls')][1] + 1]))]_vars
    /\ <>Answered
    /\ [](Answered => [](GenReturned => result = Response))

\* with four credentials, a request was answered after two rotations
C27_Witness ==
    /\ Answered
    /\ N = 4
    /\ NumQuota = 2
    /\ Len(marked) = 2

----------------------------------------------------------------------------
(* Two threads using the shared pool, one Python statement per step.       *)
(* APIKeyManager holds no lock, so the statements of concurrent calls      *)
(* interleave freely.                                                      *)

SeqUnchanged == UNCHANGED <<opVars, callVars, fmtVars, flowVars, storeVars, embedVars>>

\* mark_key_failed, line 39, executed by thread t
T_mark39(t) ==
    /\ Constructed /\ tpc[t] = "idle"
    /\ failed_keys' = FailedAfterMark(failed_keys, current_key_index)
    /\ tpc' = [tpc EXCEPT ![t] = "m40"]
    /\ UNCHANGED <<api_keys, current_key_index, configured, ctorError, poolError,
                   marksDone, getsStarted>>
    /\ SeqUnchanged

\* mark_key_failed, line 40 (and the print of line 41), executed by thread t
T_mark40(t) ==
    /\ tpc[t] = "m40"
    /\ current_key_index' = NextIndex(current_key_index, api_keys)
    /\ tpc' = [tpc EXCEPT ![t] = "idle"]
    /\ marksDone' = Min(marksDone + 1, N + 1)
    /\ UNCHANGED <<api_keys, failed_keys, configured, ctorError, poolError, getsStarted>>
    /\ SeqUnchanged

\* get_current_key, line 30, executed by thread t
T_get30(t) ==
    /\ Constructed /\ tpc[t] = "idle"
    /\ tpc' = [tpc EXCEPT ![t] = IF AllFailed(failed_keys, api_keys) THEN "g32" ELSE "g35"]
    /\ getsStarted' = TRUE
    /\ UNCHANGED <<poolVars, marksDone>>
    /\ SeqUnchanged

\* get_current_key, lines 32-33, executed by thread t
T_get32(t) ==
    /\ tpc[t] = "g32"
    /\ failed_keys' = {}
    /\ tpc' = [tpc EXCEPT ![t] = "g35"]
    /\ UNCHANGED <<api_keys, current_key_index, configured, ctorError, poolError,
                   marksDone, getsStarted>>
    /\ SeqUnchanged

\* get_current_key, line 35, executed by thread t
T_get35(t) ==
    /\ tpc[t] = "g35"
    /\ poolError' = FirstError(poolError, GetError(current_key_index, api_keys))
    /\ tpc' = [tpc EXCEPT ![t] = "idle"]
    /\ UNCHANGED <<api_keys, current_key_index, failed_keys, configured, ctorError,
                   marksDone, getsStarted>>
    /\ SeqUnchanged

NextConc ==
    \E t \in Threads :
        \/ T_mark39(t)
        \/ T_mark40(t)
        \/ T_get30(t)
        \/ T_get32(t)
        \/ T_get35(t)

SpecConc == Init /\ [][NextConc]_vars

AllIdle == \A t \in Threads : tpc[t] = "idle"

\* C3: under interleaving of two requests the pool behaves as if the calls
\* were serialized: k completed mark_key_failed() calls from a fresh pool
\* (k <= N) leave exactly k distinct indices marked failed and the pointer
\* advanced by exactly k, and the active index is not marked failed while
\* another credential is still available.
C3_SerializedMarks ==
    (Constructed /\ AllIdle) =>
        /\ (~getsStarted /\ marksDone <= N) =>
              /\ Cardinality(failed_keys) = marksDone
              /\ current_key_index = marksDone % N
        /\ (current_key_index \in failed_keys => failed_keys = 0..(N - 1))

====
